---- MODULE Spec2Model ----
(***************************************************************************)
(* A model of the mesh-variable core of FiPy: construction of mesh Fields, *)
(* the cell-by-cell scalar product (dot), lazy derived Fields, the weights *)
(* of the diffusion and explicit upwind convection terms, masks handed to  *)
(* setValue, the gather of a global value across processes, the choice of  *)
(* communicators at import, and the variables a 2D grid viewer accepts.    *)
(*                                                                         *)
(* Arrays are records [shape, data]: shape is a sequence of axis lengths   *)
(* and data maps every 0-based index tuple of that shape to an integer.    *)
(***************************************************************************)
EXTENDS Integers, Sequences, FiniteSets, TLC

VARIABLES fields,      \* dot scenario: name -> Field (or an error record)
          pc,          \* dot scenario: the next step of the script
          ctor,        \* constructor scenario: the call and its outcome
          base,        \* cache scenario: name -> base Field
          cache,       \* cache scenario: name -> cache of a derived Field
          returned,    \* cache scenario: what the latest call returned
          weights,     \* weight scenario: the mesh, the flux, term -> weight
          asm,         \* assembly scenario: the mesh, the matrix being built
          masked,      \* mask scenario: the setValue call and the mask handed on
          par,         \* gather scenario: the processes and the communicator
          startup,     \* startup scenario: the installation and the outcome
          viewer       \* viewer scenario: the candidates and the outcome

dotVars == <<fields, pc>>
ctorVars == <<ctor>>
cacheVars == <<base, cache, returned>>
termVars == <<weights, asm>>
toolVars == <<masked, par, startup, viewer>>
vars == <<dotVars, ctorVars, cacheVars, termVars, toolVars>>

\* a scenario that is not running
IdleDot == fields = <<>> /\ pc = 0
IdleCtor == ctor = <<>>
IdleCache == base = <<>> /\ cache = <<>> /\ returned = <<>>
IdleTerms == weights = <<>> /\ asm = <<>>
IdleTools == masked = <<>> /\ par = <<>> /\ startup = <<>> /\ viewer = <<>>

(***************************************************************************)
(* Bounds of the model.                                                    *)
(***************************************************************************)
MaxNx == 2     \* grids have 1..MaxNx cells along x
MaxNy == 3     \* 2D grids have 1..MaxNy cells along y
MaxRank == 2   \* ranks 0..MaxRank
MaxSeed == 1   \* offsets of the test data, 0..MaxSeed
MaxVal == 2    \* setValue writes the numbers 1..MaxVal
MaxSets == 2   \* setValue succeeds at most MaxSets times in a run
MaxFlux == 1   \* face fluxes are -MaxFlux..MaxFlux
MaxCells == 4  \* assembly runs on 1D meshes of 1..MaxCells cells
MaxScale == 2  \* the scaling of a face (diffusivity * area / distance), 0..MaxScale
MaxProcs == 2  \* a run has 1..MaxProcs processes
MaxGlobal == 3 \* a partitioned mesh has 1..MaxGlobal cells in all
MaxVars == 3   \* a viewer is given 0..MaxVars variables

\* Python's None, where a shape, a rank or an array is expected
NoneShape == <<-1>>
NoneRank == -1
NoneArray == [shape |-> NoneShape, data |-> <<>>]

Max(a, b) == IF a >= b THEN a ELSE b

(***************************************************************************)
(* numpy arrays                                                            *)
(***************************************************************************)
RECURSIVE Indices(_)
Indices(shape) ==
    IF Len(shape) = 0 THEN {<<>>}
    ELSE {<<h>> \o t : h \in 0..(shape[1] - 1), t \in Indices(Tail(shape))}

RECURSIVE Prod(_)
Prod(shape) == IF Len(shape) = 0 THEN 1 ELSE shape[1] * Prod(Tail(shape))

\* row-major position of index idx in an array of the given shape
RECURSIVE Flat(_, _)
Flat(shape, idx) ==
    IF Len(shape) = 0 THEN 0
    ELSE idx[1] * Prod(Tail(shape)) + Flat(Tail(shape), Tail(idx))

\* numerix.zeros(shape)
Zeros(shape) == [shape |-> shape, data |-> [i \in Indices(shape) |-> 0]]

\* a 0-d array holding v
Scalar(v) == [shape |-> <<>>, data |-> [i \in {<<>>} |-> v]]

\* arange(prod(shape)).reshape(shape) + seed: every entry is different
Ramp(shape, seed) ==
    [shape |-> shape, data |-> [i \in Indices(shape) |-> seed + Flat(shape, i)]]

\* s left-padded with 1s to length n
Pad(s, n) == [k \in 1..n |-> IF k <= n - Len(s) THEN 1 ELSE s[k - (n - Len(s))]]

\* numerix._broadcastShape: the broadcast of two shapes, None if they do not unify
_broadcastShape(s1, s2) ==
    LET n  == Max(Len(s1), Len(s2))
        p1 == Pad(s1, n)
        p2 == Pad(s2, n)
    IN  IF \A k \in 1..n : p1[k] = p2[k] \/ p1[k] = 1 \/ p2[k] = 1
        THEN [k \in 1..n |-> IF p1[k] = 1 THEN p2[k] ELSE p1[k]]
        ELSE NoneShape

\* the index of an operand of shape s that index i of the broadcast result reads
Proj(i, s) ==
    [k \in 1..Len(s) |-> IF s[k] = 1 THEN 0 ELSE i[k + (Len(i) - Len(s))]]

\* elementwise binary operation with broadcasting; op is "mul" or "add"
Elementwise(op, x, y) ==
    LET bs == _broadcastShape(x.shape, y.shape)
    IN  IF bs = NoneShape THEN NoneArray
        ELSE [shape |-> bs,
              data  |-> [i \in Indices(bs) |->
                           IF op = "mul"
                           THEN x.data[Proj(i, x.shape)] * y.data[Proj(i, y.shape)]
                           ELSE x.data[Proj(i, x.shape)] + y.data[Proj(i, y.shape)]]]

\* x[..., newaxis * n, :]: n new axes of length 1 right before the last axis
NewAxes(x, n) ==
    LET r  == Len(x.shape) - 1
        sh == [k \in 1..(r + n + 1) |->
                 IF k <= r THEN x.shape[k]
                 ELSE IF k <= r + n THEN 1 ELSE x.shape[r + 1]]
    IN  [shape |-> sh,
         data  |-> [i \in Indices(sh) |->
                      x.data[[k \in 1..(r + 1) |-> IF k <= r THEN i[k] ELSE i[r + n + 1]]]]]

\* s without its element at (1-based) position p
Remove(s, p) == [k \in 1..(Len(s) - 1) |-> IF k < p THEN s[k] ELSE s[k + 1]]

\* s with v inserted at (1-based) position p
Insert(s, p, v) ==
    [k \in 1..(Len(s) + 1) |-> IF k < p THEN s[k] ELSE IF k = p THEN v ELSE s[k - 1]]

RECURSIVE SumUpTo(_, _, _, _)
SumUpTo(x, i, p, j) ==
    IF j < 0 THEN 0 ELSE x.data[Insert(i, p, j)] + SumUpTo(x, i, p, j - 1)

\* numerix.sum(x, axis): axis is 0-based
Sum(x, axis) ==
    LET sh == Remove(x.shape, axis + 1)
    IN  [shape |-> sh,
         data  |-> [i \in Indices(sh) |-> SumUpTo(x, i, axis + 1, x.shape[axis + 1] - 1)]]

\* a nested array literal of the given shape, its entries in row-major order
Literal(shape, entries) ==
    [shape |-> shape, data |-> [i \in Indices(shape) |-> entries[Flat(shape, i) + 1]]]

\* python's rank * (dim,)
Copies(n, v) == [k \in 1..n |-> v]

(***************************************************************************)
(* Meshes (external): uniform grids, known by class and cell counts.       *)
(***************************************************************************)
Grid1D(nx) == [class |-> "Grid1D", nx |-> nx, ny |-> 1]
Grid2D(nx, ny) == [class |-> "Grid2D", nx |-> nx, ny |-> ny]
NoMesh == [class |-> "None", nx |-> 0, ny |-> 0]

getDim(mesh) == IF mesh.class = "Grid1D" THEN 1 ELSE 2
getNumberOfCells(mesh) == mesh.nx * mesh.ny
getNumberOfFaces(mesh) ==
    IF mesh.class = "Grid1D" THEN mesh.nx + 1
    ELSE mesh.nx * (mesh.ny + 1) + mesh.ny * (mesh.nx + 1)

\* _getShapeFromMesh of the concrete classes: "cell" is CellVariable, "face" is
\* FaceVariable; the abstract _MeshVariable returns None
_getShapeFromMesh(kind, mesh) ==
    IF kind = "cell" THEN <<getNumberOfCells(mesh)>>
    ELSE IF kind = "face" THEN <<getNumberOfFaces(mesh)>>
    ELSE NoneShape

(***************************************************************************)
(* Fields.  A Field is a record; a call that raises yields ErrorField.     *)
(* gen is the Field's generation counter.                                  *)
(***************************************************************************)
ErrorField(e) ==
    [error |-> e, kind |-> "", mesh |-> NoMesh, elementshape |-> NoneShape,
     opShape |-> NoneShape, value |-> NoneArray, gen |-> 0]

IsField(F) == F.error = ""

\* Variable.__init__(value, array): the stored value is array filled with value
\* (array[:] = value), or None when value is None
Variable__init__(kind, mesh, elementshape, value, array) ==
    IF value = NoneArray
    THEN [error |-> "", kind |-> kind, mesh |-> mesh, elementshape |-> elementshape,
          opShape |-> NoneShape, value |-> NoneArray, gen |-> 0]
    ELSE IF _broadcastShape(array.shape, value.shape) # array.shape
    THEN ErrorField("ValueError")
    ELSE [error |-> "", kind |-> kind, mesh |-> mesh, elementshape |-> elementshape,
          opShape |-> NoneShape, value |-> Elementwise("add", array, value), gen |-> 0]

\* mutant of __init__: the default element shape is dim copies of rank
__init__swapped(kind, mesh, value, rank, elementshape) ==
    IF elementshape # NoneShape /\ rank # NoneRank /\ Len(elementshape) # rank
    THEN ErrorField("NameError")
    ELSE
      LET es == IF elementshape = NoneShape
                THEN (IF rank # NoneRank THEN Copies(getDim(mesh), rank) ELSE <<>>)
                ELSE elementshape
          array == IF value = NoneArray THEN NoneArray
                   ELSE Zeros(es \o _getShapeFromMesh(kind, mesh))
          val == IF value # NoneArray
                    /\ _broadcastShape(array.shape, value.shape) = NoneShape
                 THEN [shape |-> value.shape \o <<1>>,
                       data  |-> [i \in Indices(value.shape \o <<1>>) |->
                                    value.data[SubSeq(i, 1, Len(value.shape))]]]
                 ELSE value
      IN  Variable__init__(kind, mesh, es, val, array)

\* _MeshVariable.__init__(mesh, value, rank, elementshape).  DimensionError is
\* neither defined nor imported in the module, so the raise statement of line 67
\* fails on the lookup of that name: the caller sees a NameError.
__init__(kind, mesh, value, rank, elementshape) ==
    IF elementshape # NoneShape /\ rank # NoneRank /\ Len(elementshape) # rank
    THEN ErrorField("NameError")
    ELSE
      LET es == IF elementshape = NoneShape
                THEN (IF rank # NoneRank THEN Copies(rank, getDim(mesh)) ELSE <<>>)
                ELSE elementshape
          array == IF value = NoneArray THEN NoneArray
                   ELSE Zeros(es \o _getShapeFromMesh(kind, mesh))
          val == IF value # NoneArray
                    /\ _broadcastShape(array.shape, value.shape) = NoneShape
                 THEN [shape |-> value.shape \o <<1>>,
                       data  |-> [i \in Indices(value.shape \o <<1>>) |->
                                    value.data[SubSeq(i, 1, Len(value.shape))]]]
                 ELSE value
      IN  Variable__init__(kind, mesh, es, val, array)

\* Variable.getShape: the declared shape of an operator variable, else the
\* shape of the stored value, () when there is none
Variable_getShape(F) ==
    IF F.opShape # NoneShape THEN F.opShape
    ELSE IF F.value # NoneArray THEN F.value.shape
    ELSE <<>>

\* _MeshVariable.getShape; python's "x or y" yields y when the tuple x is empty
getShape(F) ==
    IF Variable_getShape(F) # <<>> THEN Variable_getShape(F)
    ELSE IF F.elementshape \o _getShapeFromMesh(F.kind, F.mesh) # <<>>
    THEN F.elementshape \o _getShapeFromMesh(F.kind, F.mesh)
    ELSE <<>>

getRank(F) == Len(getShape(F)) - 1

getValue(F) == F.value

\* Variable.setValue(value, where): the value is written where the mask holds
\* (everywhere without a mask) and the generation counter goes up by one
Variable_setValue(self, value, where) ==
    LET shape == getShape(self)
        new   == Elementwise("add", Zeros(shape), value)
    IN  IF _broadcastShape(shape, value.shape) # shape THEN ErrorField("ValueError")
        ELSE IF where = NoneArray
        THEN [self EXCEPT !.value = new, !.gen = @ + 1]
        ELSE IF _broadcastShape(shape, where.shape) # shape
        THEN ErrorField("ValueError")
        ELSE [self EXCEPT
                !.value = [shape |-> shape,
                           data  |-> [i \in Indices(shape) |->
                                        IF where.data[Proj(i, where.shape)] = 1
                                        THEN new.data[i] ELSE self.value.data[i]]],
                !.gen = @ + 1]

\* where = numerix.repeat(where[numerix.newaxis, ...], repeats=dim, axis=0),
\* for each dim of dims in turn
RECURSIVE RepeatWhere(_, _)
RepeatWhere(where, dims) ==
    IF Len(dims) = 0 THEN where
    ELSE RepeatWhere([shape |-> <<dims[1]>> \o where.shape,
                      data  |-> [i \in Indices(<<dims[1]>> \o where.shape) |->
                                   where.data[Tail(i)]]],
                     Tail(dims))

\* the mask _MeshVariable.setValue hands to Variable.setValue
setValue_where(self, where) ==
    IF where # NoneArray
         /\ where.shape # getShape(self)
         /\ where.shape = _getShapeFromMesh(self.kind, self.mesh)
    THEN RepeatWhere(where, self.elementshape)
    ELSE where

\* mutant of setValue: the array is written in place, past Variable.setValue
setValue_inPlace(self, value, where) ==
    LET F == Variable_setValue(self, value, setValue_where(self, where))
    IN  IF IsField(F) THEN [F EXCEPT !.gen = self.gen] ELSE F

\* _MeshVariable.setValue(value, where)
setValue(self, value, where) ==
    Variable_setValue(self, value, setValue_where(self, where))

(***************************************************************************)
(* The scalar product.                                                     *)
(***************************************************************************)
\* mutants of _dot: the sum runs over the axis after the contracted one; the
\* scalar case is missing; the index expression is dropped; the scalar case adds
_dot_nextAxis(a, b, index) ==
    LET rankA == Len(a.shape) - 1
        rankB == Len(b.shape) - 1
        prod  == Elementwise("mul", NewAxes(a, index), b)
    IN  IF rankA <= 0 \/ rankB <= 0 THEN prod
        ELSE IF prod = NoneArray THEN NoneArray
        ELSE Sum(prod, rankA)

_dot_noScalarCase(a, b, index) ==
    LET rankA == Len(a.shape) - 1
        prod  == Elementwise("mul", NewAxes(a, index), b)
    IN  IF prod = NoneArray THEN NoneArray
        ELSE Sum(prod, Max(rankA - 1, 0))

_dot_noIndex(a, b, index) ==
    LET rankA == Len(a.shape) - 1
        rankB == Len(b.shape) - 1
        prod  == Elementwise("mul", a, b)
    IN  IF rankA <= 0 \/ rankB <= 0 THEN prod
        ELSE IF prod = NoneArray THEN NoneArray
        ELSE Sum(prod, rankA - 1)

_dot_plus(a, b, index) ==
    LET rankA == Len(a.shape) - 1
        rankB == Len(b.shape) - 1
        prod  == Elementwise("mul", NewAxes(a, index), b)
    IN  IF rankA <= 0 \/ rankB <= 0 THEN Elementwise("add", NewAxes(a, index), b)
        ELSE IF prod = NoneArray THEN NoneArray
        ELSE Sum(prod, rankA - 1)

\* _MeshVariable._dot(a, b, index) on arrays; index stands for the index
\* expression (..., newaxis * index, :)
_dot(a, b, index) ==
    LET rankA == Len(a.shape) - 1
        rankB == Len(b.shape) - 1
        prod  == Elementwise("mul", NewAxes(a, index), b)
    IN  IF rankA <= 0 \/ rankB <= 0 THEN prod
        ELSE IF prod = NoneArray THEN NoneArray
        ELSE Sum(prod, rankA - 1)

\* _MeshVariable.__dot(A, B, operatorClass): the derived Field, with the value
\* a getValue() of it computes
__dot(A, B) ==
    LET rankA == Len(getShape(A)) - 1
        rankB == Len(getShape(B)) - 1
        index == Max(rankB - 1, 0)
        shapeA == getShape(A)
        indexedShape == SubSeq(shapeA, 1, rankA) \o Copies(index, 1)
                          \o <<shapeA[rankA + 1]>>
        bshape == _broadcastShape(indexedShape, getShape(B))
        opShape == IF rankA > 0 /\ bshape # NoneShape
                   THEN SubSeq(bshape, 1, rankA - 1)
                          \o SubSeq(bshape, rankA + 1, Len(bshape))
                   ELSE bshape
        value == _dot(getValue(A), getValue(B), index)
    IN  IF bshape = NoneShape THEN ErrorField("TypeError")
        ELSE IF value = NoneArray THEN ErrorField("ValueError")
        ELSE [error |-> "", kind |-> A.kind, mesh |-> A.mesh,
              elementshape |-> SubSeq(opShape, 1, Len(opShape) - 1),
              opShape |-> opShape, value |-> value, gen |-> 0]

\* _MeshVariable.dot(self, other) for Fields of one mesh: other is a Variable
\* already and _shapeClassAndOther hands it back unchanged
dot(self, other) == __dot(self, other)

\* Variable.__add__ of two Fields: the elementwise sum
add(self, other) ==
    LET bshape == _broadcastShape(getShape(self), getShape(other))
        value  == Elementwise("add", getValue(self), getValue(other))
    IN  IF bshape = NoneShape \/ value = NoneArray THEN ErrorField("TypeError")
        ELSE [error |-> "", kind |-> self.kind, mesh |-> self.mesh,
              elementshape |-> SubSeq(bshape, 1, Len(bshape) - 1),
              opShape |-> bshape, value |-> value, gen |-> 0]

(***************************************************************************)
(* Inputs: the meshes and the Fields the scenarios draw from.              *)
(***************************************************************************)
Meshes ==
    {Grid1D(nx) : nx \in 1..MaxNx}
      \cup {Grid2D(nx, ny) : nx \in 1..MaxNx, ny \in 1..MaxNy}

\* element shapes given explicitly, with axes of different lengths
ExplicitShapes == {<<3>>, <<2, 3>>, <<3, 2>>}

ElementShapes(mesh) ==
    {Copies(r, getDim(mesh)) : r \in 0..MaxRank} \cup ExplicitShapes

\* the mesh and the Fields of _testDot
DocMesh == Grid2D(2, 3)
s1 == __init__("cell", DocMesh, Scalar(2), NoneRank, NoneShape)
s2 == __init__("cell", DocMesh, Scalar(3), NoneRank, NoneShape)
v1 == __init__("cell", DocMesh, Literal(<<2, 1>>, <<2, 3>>), 1, NoneShape)
v2 == __init__("cell", DocMesh, Literal(<<2, 1>>, <<3, 4>>), 1, NoneShape)
t21 == __init__("cell", DocMesh, Literal(<<2, 2, 1>>, <<2, 3, 4, 5>>), 2, NoneShape)
t22 == __init__("cell", DocMesh, Literal(<<2, 2, 1>>, <<3, 4, 5, 6>>), 2, NoneShape)
DocFields == {s1, s2, v1, v2, t21, t22}

\* Fields with a different value in every entry
RampFields(mesh) ==
    {__init__("cell", mesh, Ramp(es \o _getShapeFromMesh("cell", mesh), seed),
              Len(es), es) : es \in ElementShapes(mesh), seed \in 0..MaxSeed}

TestFields(mesh) ==
    RampFields(mesh) \cup (IF mesh = DocMesh THEN DocFields ELSE {})

(***************************************************************************)
(* Scenario "dot": a script over three Fields a, b, c of one mesh, b and c *)
(* of equal shape:  ab = a.dot(b); ac = a.dot(c); bc = b + c;              *)
(* a_bc = a.dot(bc); ab_ac = ab + ac.  A step that raises ends the script. *)
(***************************************************************************)
Script ==
    << [op |-> "dot", x |-> "a",  y |-> "b",  z |-> "ab"],
       [op |-> "dot", x |-> "a",  y |-> "c",  z |-> "ac"],
       [op |-> "add", x |-> "b",  y |-> "c",  z |-> "bc"],
       [op |-> "dot", x |-> "a",  y |-> "bc", z |-> "a_bc"],
       [op |-> "add", x |-> "ab", y |-> "ac", z |-> "ab_ac"] >>

Has(n) == n \in DOMAIN fields /\ IsField(fields[n])

\* no step of the script has raised
Running == \A n \in DOMAIN fields : IsField(fields[n])

InitDot ==
    /\ \E mesh \in Meshes :
         \E a \in TestFields(mesh), b \in TestFields(mesh), c \in TestFields(mesh) :
            /\ getShape(b) = getShape(c)
            /\ fields = [n \in {"a", "b", "c"} |->
                           IF n = "a" THEN a ELSE IF n = "b" THEN b ELSE c]
    /\ pc = 1
    /\ IdleCtor /\ IdleCache /\ IdleTerms /\ IdleTools

Dot ==
    /\ pc \in 1..Len(Script)
    /\ Script[pc].op = "dot"
    /\ Running
    /\ fields' = fields @@
                   (Script[pc].z :> dot(fields[Script[pc].x], fields[Script[pc].y]))
    /\ pc' = pc + 1
    /\ UNCHANGED <<ctorVars, cacheVars, termVars, toolVars>>

Add ==
    /\ pc \in 1..Len(Script)
    /\ Script[pc].op = "add"
    /\ Running
    /\ fields' = fields @@
                   (Script[pc].z :> add(fields[Script[pc].x], fields[Script[pc].y]))
    /\ pc' = pc + 1
    /\ UNCHANGED <<ctorVars, cacheVars, termVars, toolVars>>

NextDot == Dot \/ Add

SpecDot == InitDot /\ [][NextDot]_vars

(***************************************************************************)
(* Claims about the scalar product, checked under SpecDot.                 *)
(***************************************************************************)
Last(s) == s[Len(s)]

\* sum over k' in 0..k of A[iA..., k', m] * B[k', jB..., m]
RECURSIVE ContractUpTo(_, _, _, _, _, _)
ContractUpTo(A, B, iA, jB, m, k) ==
    IF k < 0 THEN 0
    ELSE A.data[iA \o <<k, m>>] * B.data[<<k>> \o jB \o <<m>>]
           + ContractUpTo(A, B, iA, jB, m, k - 1)

EveryCell(F, perCell) ==
    /\ IsField(F)
    /\ getValue(F).shape = perCell.shape \o <<6>>
    /\ \A i \in Indices(getValue(F).shape) :
         getValue(F).data[i] = perCell.data[SubSeq(i, 1, Len(i) - 1)]

\* C8: when either operand of dot is rank-0, a.dot(b) is the elementwise product
\* of a and b, broadcast along the mesh axis and not summed; on the 2x3 grid the
\* scalar Fields 2 and 3 give an array of shape (6,) holding 6 everywhere.
C8_ScalarDotIsProduct ==
    /\ ("ab" \in DOMAIN fields
          /\ (getRank(fields["a"]) = 0 \/ getRank(fields["b"]) = 0))
       => LET A == fields["a"]
              B == fields["b"]
              R == fields["ab"]
              expected == IF getRank(A) = 0 THEN getShape(B) ELSE getShape(A)
          IN  /\ IsField(R)
              /\ getValue(R).shape = expected
              /\ \A i \in Indices(expected) :
                   getValue(R).data[i] =
                     getValue(A).data[IF getRank(A) = 0 THEN <<Last(i)>> ELSE i]
                       * getValue(B).data[IF getRank(B) = 0 THEN <<Last(i)>> ELSE i]
    /\ ("ab" \in DOMAIN fields /\ fields["a"] = s1 /\ fields["b"] = s2)
       => EveryCell(fields["ab"], Scalar(6))

C8_Witness ==
    /\ Has("ab") /\ fields["a"] = s1 /\ fields["b"] = s2
    /\ getValue(fields["ab"]).data[<<5>>] = 6

\* C9 as stated: on the 2x3 grid the vector Field [2,3] dotted with the rank-2
\* Field [[2,3],[4,5]] yields [21,26] in every cell, with shape (2,6).
C9_AsStated ==
    ("ab" \in DOMAIN fields /\ fields["a"] = v1 /\ fields["b"] = t21)
    => EveryCell(fields["ab"], Literal(<<2>>, <<21, 26>>))

\* C9 amended: on the 2x3 grid the vector Field [2,3] dotted with the rank-2
\* Field [[3,4],[5,6]] yields [21,26] in every cell, with shape (2,6); dotted
\* with [[2,3],[4,5]] it yields [16,21].
C9_DocValues ==
    /\ ("ab" \in DOMAIN fields /\ fields["a"] = v1 /\ fields["b"] = t22)
       => /\ EveryCell(fields["ab"], Literal(<<2>>, <<21, 26>>))
          /\ getShape(fields["ab"]) = <<2, 6>>
    /\ ("ab" \in DOMAIN fields /\ fields["a"] = v1 /\ fields["b"] = t21)
       => /\ EveryCell(fields["ab"], Literal(<<2>>, <<16, 21>>))
          /\ getShape(fields["ab"]) = <<2, 6>>

C9_Witness ==
    /\ Has("ab") /\ fields["a"] = v1 /\ fields["b"] = t22
    /\ getValue(fields["ab"]).data[<<1, 5>>] = 26

\* C10: for Fields a, b, c of one mesh, b and c of equal shape, whenever
\* a.dot(b) and a.dot(c) succeed so does a.dot(b + c), and it equals
\* a.dot(b) + a.dot(c) entry by entry (ranks from 0 up).
C10_DotAdditive ==
    /\ "a_bc" \in DOMAIN fields => IsField(fields["a_bc"])
    /\ "ab_ac" \in DOMAIN fields
       => /\ IsField(fields["ab_ac"])
          /\ getValue(fields["a_bc"]) = getValue(fields["ab_ac"])

C10_Witness ==
    /\ Has("ab_ac")
    /\ getRank(fields["a"]) = 2 /\ getRank(fields["b"]) = 1
    /\ fields["b"] # fields["c"]
    /\ getValue(fields["ab_ac"]).shape = getValue(fields["a_bc"]).shape

(***************************************************************************)
(* Scenario "constructor": one call of a concrete Field class and then     *)
(* getShape() on what it built.                                            *)
(***************************************************************************)
CtorRanks == {NoneRank} \cup 0..MaxRank
CtorShapes == {NoneShape, <<>>} \cup ExplicitShapes

\* the element shape the caller of __init__ has in mind
IntendedShape(mesh, rank, elementshape) ==
    IF elementshape # NoneShape THEN elementshape
    ELSE IF rank # NoneRank THEN Copies(rank, getDim(mesh))
    ELSE <<>>

\* the initial values tried: None, a number, one element with and without a
\* trailing new axis, a whole array, and an array of a length no mesh here has
CtorValues(kind, mesh, es) ==
    { NoneArray, Scalar(7), Ramp(es, 1), Ramp(es \o <<1>>, 1),
      Ramp(es \o _getShapeFromMesh(kind, mesh), 0), Ramp(<<97>>, 0) }

InitCtor ==
    /\ \E kind \in {"cell", "face"}, mesh \in Meshes, rank \in CtorRanks,
          elementshape \in CtorShapes :
         \E value \in CtorValues(kind, mesh, IntendedShape(mesh, rank, elementshape)) :
            ctor = [state |-> "call", kind |-> kind, mesh |-> mesh, rank |-> rank,
                    elementshape |-> elementshape, value |-> value,
                    field |-> ErrorField("unset"), shape |-> NoneShape]
    /\ IdleDot /\ IdleCache /\ IdleTerms /\ IdleTools

Construct ==
    /\ ctor.state = "call"
    /\ LET F == __init__(ctor.kind, ctor.mesh, ctor.value, ctor.rank, ctor.elementshape)
       IN  ctor' = [ctor EXCEPT !.field = F,
                                !.state = IF IsField(F) THEN "constructed" ELSE "raised"]
    /\ UNCHANGED <<dotVars, cacheVars, termVars, toolVars>>

GetShape ==
    /\ ctor.state = "constructed"
    /\ ctor' = [ctor EXCEPT !.shape = getShape(ctor.field), !.state = "queried"]
    /\ UNCHANGED <<dotVars, cacheVars, termVars, toolVars>>

NextCtor == Construct \/ GetShape

SpecCtor == InitCtor /\ [][NextCtor]_vars

\* C3: for every successfully constructed mesh Field, getShape() is
\* elementShape + shapeFromMesh(mesh), where elementShape is the one given, or
\* rank copies of the mesh dimension, or () when neither is given.
C3_ShapeIsElementPlusMesh ==
    ctor.state = "queried"
    => /\ ctor.field.elementshape
            = IntendedShape(ctor.mesh, ctor.rank, ctor.elementshape)
       /\ ctor.shape = IntendedShape(ctor.mesh, ctor.rank, ctor.elementshape)
                         \o _getShapeFromMesh(ctor.kind, ctor.mesh)

C3_Witness ==
    /\ ctor.state = "queried"
    /\ ctor.kind = "face" /\ ctor.mesh = DocMesh
    /\ ctor.rank = 2 /\ ctor.elementshape = NoneShape
    /\ ctor.shape = <<2, 2, 17>>

\* C4 as stated: constructing with an explicit elementShape and a rank such that
\* len(elementShape) != rank fails with the shape-mismatch error (DimensionError
\* in the source) and produces no Field; with an explicit elementShape the check
\* passes exactly when len(elementShape) = rank or rank is not given.
C4_AsStated ==
    (ctor.state # "call" /\ ctor.elementshape # NoneShape)
    => IF ctor.rank # NoneRank /\ Len(ctor.elementshape) # ctor.rank
       THEN ctor.state = "raised" /\ ctor.field.error = "DimensionError"
       ELSE ctor.field.error \notin {"DimensionError", "NameError"}


(***************************************************************************)
(* Scenario "cache": base Fields x (rank 1) and y (rank 0) of a grid of    *)
(* two cells, and the lazy derived Fields yx = y.dot(x), yyx = y.dot(yx).   *)
(* A derived Field records the generation of each operand when its value   *)
(* is computed, and computes it again when queried if one has changed.     *)
(***************************************************************************)
Bases == {"x", "y"}
Derived == {"yx", "yyx"}
Operands(n) == IF n = "yx" THEN <<"y", "x">> ELSE <<"y", "yx">>

CacheMesh == Grid1D(2)

\* a mask of the shape of the mesh: the first cell alone
FirstCell(mesh) ==
    [shape |-> _getShapeFromMesh("cell", mesh),
     data  |-> [i \in Indices(_getShapeFromMesh("cell", mesh)) |->
                  IF i[1] = 0 THEN 1 ELSE 0]]

\* the operand n of a derived Field, as the caches c hold it
FieldOf(n, c) == IF n \in Bases THEN base[n] ELSE c[n].field

\* getValue() of Field n over the caches c: the caches afterwards
RECURSIVE Refresh(_, _)
Refresh(n, c) ==
    IF n \in Bases THEN c
    ELSE LET ops == Operands(n)
             c2  == Refresh(ops[2], Refresh(ops[1], c))
             now == <<FieldOf(ops[1], c2).gen, FieldOf(ops[2], c2).gen>>
             old == c2[n]
             value == dot(FieldOf(ops[1], c2), FieldOf(ops[2], c2))
         IN  IF old.cached /\ old.filled /\ old.stamp = now THEN c2
             ELSE [c2 EXCEPT ![n] =
                     [cached |-> old.cached, filled |-> TRUE, stamp |-> now,
                      field  |-> [value EXCEPT !.gen =
                                    IF old.filled /\ old.stamp = now
                                    THEN old.field.gen ELSE old.field.gen + 1]]]

InitCache ==
    /\ base = [n \in Bases |->
                 IF n = "x" THEN __init__("cell", CacheMesh, Scalar(1), 1, <<2>>)
                 ELSE __init__("cell", CacheMesh, Scalar(1), NoneRank, NoneShape)]
    /\ \E flags \in [Derived -> BOOLEAN] :
         cache = [n \in Derived |->
                    [cached |-> flags[n], filled |-> FALSE, stamp |-> <<-1, -1>>,
                     field |-> ErrorField("unset")]]
    /\ returned = [op |-> "none", name |-> "", value |-> NoneArray]
    /\ IdleDot /\ IdleCtor /\ IdleTerms /\ IdleTools

SetValue(n, v, where) ==
    /\ base["x"].gen + base["y"].gen < MaxSets
    /\ LET F == setValue(base[n], Scalar(v), where)
       IN  IF IsField(F)
           THEN /\ base' = [base EXCEPT ![n] = F]
                /\ returned' = [op |-> "set", name |-> "", value |-> NoneArray]
           ELSE /\ base' = base
                /\ returned' = [op |-> "raise", name |-> "", value |-> NoneArray]
    /\ UNCHANGED <<cache, dotVars, ctorVars, termVars, toolVars>>

GetValue(n) ==
    /\ cache' = Refresh(n, cache)
    /\ returned' = [op |-> "get", name |-> n, value |-> getValue(cache'[n].field)]
    /\ UNCHANGED <<base, dotVars, ctorVars, termVars, toolVars>>

NextCache ==
    \/ \E n \in Bases, v \in 1..MaxVal :
         \E where \in {NoneArray, FirstCell(base[n].mesh)} : SetValue(n, v, where)
    \/ \E n \in Derived : GetValue(n)

SpecCache == InitCache /\ [][NextCache]_vars

\* the derived Field n computed afresh from the base Fields as they are now
RECURSIVE FreshField(_)
FreshField(n) ==
    IF n \in Bases THEN base[n]
    ELSE dot(FreshField(Operands(n)[1]), FreshField(Operands(n)[2]))

\* C2: every getValue() of a derived Field returns the value computed from the
\* current values of the base Fields it depends on, directly or through other
\* derived Fields, whatever setValue and getValue calls came before.
C2_NoStaleValue ==
    returned.op = "get" => returned.value = getValue(FreshField(returned.name))

\* a getValue() of yyx that found a cache filled before the latest setValue
C2_Witness ==
    /\ returned.op = "get" /\ returned.name = "yyx"
    /\ cache["yyx"].cached /\ cache["yx"].cached
    /\ cache["yyx"].field.gen >= 2
    /\ base["x"].gen >= 1 /\ base["y"].gen >= 1
    /\ returned.value # getValue(dot(__init__("cell", base["x"].mesh, Scalar(1),
                                              NoneRank, NoneShape),
                                     dot(__init__("cell", base["x"].mesh, Scalar(1),
                                                  NoneRank, NoneShape),
                                         __init__("cell", base["x"].mesh, Scalar(1),
                                                  Len(base["x"].elementshape),
                                                  base["x"].elementshape))))


(***************************************************************************)
(* Terms and their weights.  A weight maps a role ("implicit", "explicit") *)
(* to the four coefficients of the stencil of a face.                      *)
(***************************************************************************)
\* mutants of ImplicitDiffusionTerm._getWeight: an explicit role too; a sign slip
ImplicitDiffusionTerm_getWeight_both(mesh) ==
    [role \in {"implicit", "explicit"} |->
       [c1diag |-> -1, c1offdiag |-> 1, c2diag |-> -1, c2offdiag |-> 1]]

ImplicitDiffusionTerm_getWeight_sign(mesh) ==
    [role \in {"implicit"} |->
       [c1diag |-> -1, c1offdiag |-> 1, c2diag |-> -1, c2offdiag |-> -1]]

\* ImplicitDiffusionTerm._getWeight(mesh); c1diag is 'cell 1 diag', and so on
ImplicitDiffusionTerm_getWeight(mesh) ==
    [role \in {"implicit"} |->
       [c1diag |-> -1, c1offdiag |-> 1, c2diag |-> -1, c2offdiag |-> 1]]

\* the upwind factor of a face: cell 1 is upwind when the flux is >= 0
Alpha(F) == IF F >= 0 THEN 1 ELSE 0

\* UpwindConvectionTerm._getWeight(mesh): the implicit role alone, a coefficient
\* per face of the mesh
UpwindConvectionTerm_getWeight(mesh, flux) ==
    [role \in {"implicit"} |->
       [c1diag    |-> [f \in DOMAIN flux |-> Alpha(flux[f])],
        c1offdiag |-> [f \in DOMAIN flux |-> 1 - Alpha(flux[f])],
        c2diag    |-> [f \in DOMAIN flux |-> -(1 - Alpha(flux[f]))],
        c2offdiag |-> [f \in DOMAIN flux |-> -Alpha(flux[f])]]]

\* mutant of ExplicitUpwindConvectionTerm._getWeight: 'implicit' is not deleted
ExplicitUpwindConvectionTerm_getWeight_keep(mesh, flux) ==
    LET weight == UpwindConvectionTerm_getWeight(mesh, flux)
    IN  IF "implicit" \in DOMAIN weight
        THEN [role \in DOMAIN weight \cup {"explicit"} |->
                IF role = "explicit" THEN weight["implicit"] ELSE weight[role]]
        ELSE weight

\* ExplicitUpwindConvectionTerm._getWeight(mesh)
ExplicitUpwindConvectionTerm_getWeight(mesh, flux) ==
    LET weight == UpwindConvectionTerm_getWeight(mesh, flux)
    IN  IF "implicit" \in DOMAIN weight
        THEN [role \in (DOMAIN weight \cup {"explicit"}) \ {"implicit"} |->
                IF role = "explicit" THEN weight["implicit"] ELSE weight[role]]
        ELSE weight

(***************************************************************************)
(* Scenario "weight": the three terms are asked for their weight on one    *)
(* mesh, the convection terms with one flux per face.                      *)
(***************************************************************************)
Terms == {"ImplicitDiffusionTerm", "UpwindConvectionTerm",
          "ExplicitUpwindConvectionTerm"}

FaceIDs(mesh) == 0..(getNumberOfFaces(mesh) - 1)

InitWeight ==
    /\ \E mesh \in {Grid1D(nx) : nx \in 1..MaxNx} :
         \E flux \in [FaceIDs(mesh) -> (-MaxFlux)..MaxFlux] :
            weights = [mesh |-> mesh, flux |-> flux, w |-> <<>>]
    /\ asm = <<>>
    /\ IdleDot /\ IdleCtor /\ IdleCache /\ IdleTools

GetWeight(term) ==
    /\ weights # <<>>
    /\ term \notin DOMAIN weights.w
    /\ weights' =
         [weights EXCEPT !.w = @ @@ (term :>
            IF term = "ImplicitDiffusionTerm"
            THEN ImplicitDiffusionTerm_getWeight(weights.mesh)
            ELSE IF term = "UpwindConvectionTerm"
            THEN UpwindConvectionTerm_getWeight(weights.mesh, weights.flux)
            ELSE ExplicitUpwindConvectionTerm_getWeight(weights.mesh, weights.flux))]
    /\ UNCHANGED <<asm, dotVars, ctorVars, cacheVars, toolVars>>

NextWeight == \E term \in Terms : GetWeight(term)

SpecWeight == InitWeight /\ [][NextWeight]_vars

\* C5: for one mesh and flux, the weight of ExplicitUpwindConvectionTerm holds
\* under 'explicit' the coefficients UpwindConvectionTerm returns under
\* 'implicit', has no 'implicit' role, and has every other role of the base
\* weight unchanged.
C5_RelabelOnly ==
    {"UpwindConvectionTerm", "ExplicitUpwindConvectionTerm"} \subseteq DOMAIN weights.w
    => LET implicit == weights.w["UpwindConvectionTerm"]
           explicit == weights.w["ExplicitUpwindConvectionTerm"]
       IN  /\ "implicit" \in DOMAIN implicit
           /\ "explicit" \in DOMAIN explicit
           /\ explicit["explicit"] = implicit["implicit"]
           /\ "implicit" \notin DOMAIN explicit
           /\ \A role \in DOMAIN implicit \ {"implicit"} :
                role \in DOMAIN explicit /\ explicit[role] = implicit[role]
           /\ DOMAIN explicit \ {"explicit"} = DOMAIN implicit \ {"implicit"}

C5_Witness ==
    /\ {"UpwindConvectionTerm", "ExplicitUpwindConvectionTerm"} \subseteq DOMAIN weights.w
    /\ \E f, g \in DOMAIN weights.flux : weights.flux[f] < 0 /\ weights.flux[g] > 0
    /\ \E f \in DOMAIN weights.flux :
         weights.w["ExplicitUpwindConvectionTerm"]["explicit"].c2offdiag[f] = -1

\* C6: the weight of ImplicitDiffusionTerm has the role 'implicit' only, with
\* exactly the entries cell 1 diag = -1, cell 1 offdiag = 1, cell 2 diag = -1,
\* cell 2 offdiag = 1, on every mesh.
C6_DiffusionImplicitOnly ==
    "ImplicitDiffusionTerm" \in DOMAIN weights.w
    => LET weight == weights.w["ImplicitDiffusionTerm"]
       IN  /\ DOMAIN weight = {"implicit"}
           /\ DOMAIN weight["implicit"]
                = {"c1diag", "c1offdiag", "c2diag", "c2offdiag"}
           /\ weight["implicit"].c1diag = -1
           /\ weight["implicit"].c1offdiag = 1
           /\ weight["implicit"].c2diag = -1
           /\ weight["implicit"].c2offdiag = 1

C6_Witness ==
    /\ "ImplicitDiffusionTerm" \in DOMAIN weights.w
    /\ weights.mesh = Grid1D(MaxNx)
    /\ weights.w["ImplicitDiffusionTerm"]["implicit"].c2diag = -1


(***************************************************************************)
(* Scenario "assembly": the matrix and the right-hand side of a pure       *)
(* diffusion are accumulated face by face from the diffusion weight.       *)
(***************************************************************************)
PeriodicGrid1D(nx) == [class |-> "PeriodicGrid1D", nx |-> nx, ny |-> 1]

NoCell == -1

faceCount(mesh) == IF mesh.class = "PeriodicGrid1D" THEN mesh.nx ELSE mesh.nx + 1

\* the two cells of a face; a boundary face has NoCell for its second cell
faceAdjacentCells(mesh, f) ==
    IF mesh.class = "PeriodicGrid1D" THEN <<(f + mesh.nx - 1) % mesh.nx, f>>
    ELSE IF f = 0 THEN <<0, NoCell>>
    ELSE IF f = mesh.nx THEN <<mesh.nx - 1, NoCell>>
    ELSE <<f - 1, f>>

Cells(mesh) == 0..(mesh.nx - 1)

\* a cell none of whose faces is a boundary face
Interior(mesh, c) ==
    \A f \in 0..(faceCount(mesh) - 1) :
       LET cells == faceAdjacentCells(mesh, f)
       IN  c \in {cells[1], cells[2]} => cells[2] # NoCell

\* the matrix and the right-hand side after adding the contribution of face f,
\* the weight scaled by the scaling of the face; boundary is the value the
\* boundary condition gives for the missing cell
assembleFace(weight, mesh, f, scale, boundary, matrix, rhs) ==
    LET w == weight["implicit"]
        c1 == faceAdjacentCells(mesh, f)[1]
        c2 == faceAdjacentCells(mesh, f)[2]
        accumulate(m, i, j, v) == [m EXCEPT ![<<i, j>>] = @ + v]
    IN  IF c2 = NoCell
        THEN [matrix |-> accumulate(matrix, c1, c1, w.c1diag * scale),
              rhs    |-> [rhs EXCEPT ![c1] = @ - w.c1offdiag * scale * boundary]]
        ELSE [matrix |-> accumulate(accumulate(accumulate(accumulate(matrix,
                              c1, c1, w.c1diag * scale),
                              c1, c2, w.c1offdiag * scale),
                              c2, c2, w.c2diag * scale),
                              c2, c1, w.c2offdiag * scale),
              rhs    |-> rhs]

InitAssemble ==
    /\ \E nx \in 1..MaxCells : \E mesh \in {Grid1D(nx), PeriodicGrid1D(nx)} :
         \E scale \in [0..(faceCount(mesh) - 1) -> 0..MaxScale] :
            asm = [mesh   |-> mesh,
                   scale  |-> scale,
                   face   |-> 0,
                   matrix |-> [ij \in Cells(mesh) \X Cells(mesh) |-> 0],
                   rhs    |-> [c \in Cells(mesh) |-> 0]]
    /\ weights = <<>>
    /\ IdleDot /\ IdleCtor /\ IdleCache /\ IdleTools

AssembleFace ==
    /\ asm # <<>>
    /\ asm.face < faceCount(asm.mesh)
    /\ LET r == assembleFace(ImplicitDiffusionTerm_getWeight(asm.mesh), asm.mesh,
                             asm.face, asm.scale[asm.face], 1, asm.matrix, asm.rhs)
       IN  asm' = [asm EXCEPT !.face = @ + 1, !.matrix = r.matrix, !.rhs = r.rhs]
    /\ UNCHANGED <<weights, dotVars, ctorVars, cacheVars, toolVars>>

NextAssemble == AssembleFace

SpecAssemble == InitAssemble /\ [][NextAssemble]_vars

RECURSIVE RowSumUpTo(_, _, _)
RowSumUpTo(matrix, c, n) ==
    IF n = 0 THEN 0 ELSE RowSumUpTo(matrix, c, n - 1) + matrix[<<c, n - 1>>]

Assembled == asm.face = faceCount(asm.mesh)

\* C7: once every face is assembled, the entries of the row of an interior
\* cell sum to zero, whatever the mesh and the scalings of its faces.
C7_InteriorRowSumZero ==
    Assembled =>
       \A c \in Cells(asm.mesh) :
          Interior(asm.mesh, c) => RowSumUpTo(asm.matrix, c, asm.mesh.nx) = 0

C7_Witness ==
    /\ Assembled
    /\ asm.mesh = Grid1D(MaxCells)
    /\ Interior(asm.mesh, 1) /\ ~Interior(asm.mesh, 0)
    /\ asm.scale[1] = 1 /\ asm.scale[2] = 2
    /\ asm.matrix[<<1, 0>>] = 1 /\ asm.matrix[<<1, 1>>] = -3 /\ asm.matrix[<<1, 2>>] = 2
    /\ RowSumUpTo(asm.matrix, 0, asm.mesh.nx) # 0


(***************************************************************************)
(* Scenario "mask": one call setValue(value, where) on a Field, recording  *)
(* the mask _MeshVariable.setValue hands on to Variable.setValue.          *)
(***************************************************************************)
\* masks of a shape: nothing set, everything set, one entry set
Masks(shape) ==
    {[shape |-> shape, data |-> [i \in Indices(shape) |-> b]] : b \in {0, 1}}
      \cup {[shape |-> shape,
             data  |-> [i \in Indices(shape) |-> IF i = j THEN 1 ELSE 0]] :
            j \in Indices(shape)}

\* the masks tried on a Field: None, a number, masks of the shape of the mesh
\* and masks of the shape of the Field
Wheres(self) ==
    {NoneArray, Scalar(1)}
      \cup Masks(_getShapeFromMesh(self.kind, self.mesh))
      \cup {w \in Masks(getShape(self)) : \E i \in Indices(w.shape) :
               w.data[i] = 1 /\ i[Len(i)] = 0}

InitMask ==
    /\ \E kind \in {"cell", "face"}, mesh \in Meshes :
         \E es \in ElementShapes(mesh) :
            LET self == __init__(kind, mesh, Scalar(0), Len(es), es)
            IN  \E where \in Wheres(self) :
                   masked = [state |-> "call", self |-> self, where |-> where,
                             handed |-> NoneArray, result |-> ErrorField("unset")]
    /\ masked.self.error = ""
    /\ par = <<>> /\ startup = <<>> /\ viewer = <<>>
    /\ IdleDot /\ IdleCtor /\ IdleCache /\ IdleTerms

MaskSetValue ==
    /\ masked # <<>>
    /\ masked.state = "call"
    /\ masked' = [masked EXCEPT
                    !.state  = "called",
                    !.handed = setValue_where(masked.self, masked.where),
                    !.result = setValue(masked.self, Scalar(1), masked.where)]
    /\ UNCHANGED <<par, startup, viewer, dotVars, ctorVars, cacheVars, termVars>>

NextMask == MaskSetValue

SpecMask == InitMask /\ [][NextMask]_vars

\* C11 as stated: a mask of the shape of the mesh, given to a Field with element
\* axes, is handed on with exactly the shape of the Field, elementShape +
\* meshShape, its entry at [e..., m] being mask[m]; a mask of the shape of the
\* Field, or None, is handed on unchanged.
C11_AsStated ==
    (masked.state = "called")
    => LET self  == masked.self
           where == masked.where
           out   == masked.handed
       IN  IF where = NoneArray \/ where.shape = getShape(self)
           THEN out = where
           ELSE where.shape = _getShapeFromMesh(self.kind, self.mesh)
                => /\ out.shape = self.elementshape
                                    \o _getShapeFromMesh(self.kind, self.mesh)
                   /\ \A i \in Indices(out.shape) :
                         out.data[i] = where.data[<<i[Len(i)]>>]


(***************************************************************************)
(* _getGlobalValue: the pieces of the array arithmetic.  ID arrays are 1-D *)
(* arrays of 0-based positions.                                            *)
(***************************************************************************)
Most(s) == SubSeq(s, 1, Len(s) - 1)

LastAxis(x) == x.shape[Len(x.shape)]

\* the 1-D array of the numbers of a sequence
Array1(seq) == Literal(<<Len(seq)>>, seq)

\* x[..., ids]
Take(x, ids) ==
    LET sh == Most(x.shape) \o ids.shape
    IN  [shape |-> sh,
         data  |-> [i \in Indices(sh) |->
                      x.data[Most(i) \o <<ids.data[<<i[Len(i)]>>]>>]]]

RECURSIVE Offset(_, _)
Offset(arrays, k) ==
    IF k = 1 THEN 0 ELSE Offset(arrays, k - 1) + LastAxis(arrays[k - 1])

\* numerix.concatenate(arrays, axis=-1)
concatenate(arrays) ==
    LET n  == Len(arrays)
        sh == Most(arrays[1].shape) \o <<Offset(arrays, n) + LastAxis(arrays[n])>>
        Which(j) == CHOOSE k \in 1..n :
                       Offset(arrays, k) <= j /\ j < Offset(arrays, k) + LastAxis(arrays[k])
    IN  [shape |-> sh,
         data  |-> [i \in Indices(sh) |->
                      LET j == i[Len(i)]
                          k == Which(j)
                      IN  arrays[k].data[Most(i) \o <<j - Offset(arrays, k)>>]]]

\* max(ids) of a non-empty 1-D array
MaxOf(ids) ==
    CHOOSE m \in {ids.data[i] : i \in DOMAIN ids.data} :
       \A i \in DOMAIN ids.data : ids.data[i] <= m

\* numerix.empty(shape): whatever the memory holds
empty(shape, junk) == [shape |-> shape, data |-> [i \in Indices(shape) |-> junk]]

\* x[..., ids] = values; of two assignments to one position the later stays
Assign(x, ids, values) ==
    [shape |-> x.shape,
     data  |-> [i \in Indices(x.shape) |->
                  LET hits == {j \in 0..(ids.shape[1] - 1) : ids.data[<<j>>] = i[Len(i)]}
                  IN  IF hits = {} THEN x.data[i]
                      ELSE values.data[Most(i) \o
                              <<CHOOSE j \in hits : \A h \in hits : h <= j>>]]]

\* mutant: a process without local cells returns without gathering
_getGlobalValue_collectives_skip(Nproc, localValue) ==
    IF Nproc > 1 /\ LastAxis(localValue) # 0
    THEN <<"globalIDs", "localValue">> ELSE <<>>

\* the collectives one call of _getGlobalValue issues, in order
_getGlobalValue_collectives(Nproc, localValue) ==
    IF Nproc > 1 THEN <<"globalIDs", "localValue">> ELSE <<>>

\* mutant: the local value is gathered whole, ghost cells and all
_getGlobalValue_local_whole(localValue, localIDs) == localValue

\* what a process contributes to the gather of the values
_getGlobalValue_local(localValue, localIDs) ==
    IF LastAxis(localValue) # 0 THEN Take(localValue, localIDs) ELSE localValue

\* the global value, from what the two all-gathers returned
_getGlobalValue_global(localValue, gatheredIDs, gatheredValues, junk) ==
    LET globalIDs   == concatenate(gatheredIDs)
        globalValue == empty(Most(localValue.shape) \o <<MaxOf(globalIDs) + 1>>, junk)
    IN  Assign(globalValue, globalIDs, concatenate(gatheredValues))


(***************************************************************************)
(* Scenario "gather": the processes of a run each call _getGlobalValue on  *)
(* their part of one Field.  An all-gather is a slot of the communicator   *)
(* that every process fills with its contribution; a process leaves its    *)
(* k-th all-gather once every process has filled slot k.                   *)
(***************************************************************************)
Procs(Nproc) == 0..(Nproc - 1)

RECURSIVE Ascending(_)
Ascending(S) ==
    IF S = {} THEN <<>>
    ELSE LET m == CHOOSE x \in S : \A y \in S : x <= y
         IN  <<m>> \o Ascending(S \ {m})

\* the global cells a process holds, in local order: only its own cells, or
\* all cells (the others as ghost cells) in ascending or descending order
LocalCells(layout, N, owned) ==
    IF layout = "owned" THEN Ascending(owned)
    ELSE IF layout = "ascending" THEN [k \in 1..N |-> k - 1]
    ELSE [k \in 1..N |-> N - k]

\* the local positions of the cells a process owns
RECURSIVE OwnedPositions(_, _, _)
OwnedPositions(cells, owned, k) ==
    IF k > Len(cells) THEN <<>>
    ELSE (IF cells[k] \in owned THEN <<k - 1>> ELSE <<>>)
           \o OwnedPositions(cells, owned, k + 1)

NoContribution == [what |-> "", data |-> NoneArray]

\* the part of a Field of global value g that a process holds
Partition(g, layout, N, owned) ==
    LET cells    == LocalCells(layout, N, owned)
        localIDs == Array1(OwnedPositions(cells, owned, 1))
    IN  [pc          |-> "idle",
         localValue  |-> Take(g, Array1(cells)),
         localIDs    |-> localIDs,
         globalIDs   |-> Take(Array1(cells), localIDs),
         gatheredIDs |-> <<>>,
         issued      |-> <<>>,
         result      |-> NoneArray]

InitGatherOver(elementshapes, layouts) ==
    /\ \E Nproc \in 1..MaxProcs, N \in 1..MaxGlobal, es \in elementshapes,
          layout \in layouts :
         \E owner \in [0..(N - 1) -> Procs(Nproc)] :
            par = [Nproc |-> Nproc,
                   proc  |-> [p \in Procs(Nproc) |->
                                Partition(Ramp(es \o <<N>>, 1), layout, N,
                                          {c \in 0..(N - 1) : owner[c] = p})],
                   comm  |-> [k \in 1..2 |-> [p \in Procs(Nproc) |-> NoContribution]]]
    /\ masked = <<>> /\ startup = <<>> /\ viewer = <<>>
    /\ IdleDot /\ IdleCtor /\ IdleCache /\ IdleTerms

InitGather == InitGatherOver({<<>>, <<2>>}, {"owned", "ascending", "descending"})

\* the runs followed to their end: scalar Fields, processes holding only their
\* own cells, some of them none
InitGatherLive == InitGatherOver({<<>>}, {"owned"})

Filled(k) == \A q \in Procs(par.Nproc) : par.comm[k][q].what # ""

Gathered(k) == [q \in 1..par.Nproc |-> par.comm[k][q - 1].data]

\* lines 99-107: up to the call of the first all-gather, or the return of the
\* local value
Call(p) ==
    /\ par.proc[p].pc = "idle"
    /\ LET self == par.proc[p]
           ops  == _getGlobalValue_collectives(par.Nproc, self.localValue)
       IN  IF ops = <<>>
           THEN par' = [par EXCEPT !.proc[p].pc = "returned",
                                   !.proc[p].result = self.localValue]
           ELSE par' = [par EXCEPT
                          !.proc[p].pc = "allgather1",
                          !.proc[p].issued = <<ops[1]>>,
                          !.comm[1][p] = [what |-> ops[1], data |-> self.globalIDs]]
    /\ UNCHANGED <<masked, startup, viewer, dotVars, ctorVars, cacheVars, termVars>>

\* lines 107-110: the first all-gather returns, the second is called
Allgather1(p) ==
    /\ par.proc[p].pc = "allgather1"
    /\ Filled(1)
    /\ LET self == par.proc[p]
           ops  == _getGlobalValue_collectives(par.Nproc, self.localValue)
       IN  par' = [par EXCEPT
                     !.proc[p].pc = "allgather2",
                     !.proc[p].gatheredIDs = Gathered(1),
                     !.proc[p].issued = @ \o <<ops[2]>>,
                     !.comm[2][p] =
                        [what |-> ops[2],
                         data |-> _getGlobalValue_local(self.localValue, self.localIDs)]]
    /\ UNCHANGED <<masked, startup, viewer, dotVars, ctorVars, cacheVars, termVars>>

\* lines 110-112: the second all-gather returns, the global value is returned
Allgather2(p) ==
    /\ par.proc[p].pc = "allgather2"
    /\ Filled(2)
    /\ \E junk \in {0, -7} :
         LET self == par.proc[p]
         IN  par' = [par EXCEPT
                       !.proc[p].pc = "returned",
                       !.proc[p].result =
                          _getGlobalValue_global(
                             _getGlobalValue_local(self.localValue, self.localIDs),
                             self.gatheredIDs, Gathered(2), junk)]
    /\ UNCHANGED <<masked, startup, viewer, dotVars, ctorVars, cacheVars, termVars>>

NextGather ==
    \E p \in Procs(par.Nproc) : Call(p) \/ Allgather1(p) \/ Allgather2(p)

SpecGather == InitGather /\ [][NextGather]_vars

\* every process keeps running
SpecGatherLive == InitGatherLive /\ [][NextGather]_vars /\ WF_vars(NextGather)

\* C12: with more than one process, every process that returns has the same
\* global array, its mesh axis max(all globalIDs) + 1 long, holding at
\* [..., globalIDs_q[i]] the local value of process q at [..., localIDs_q[i]];
\* with one process the local array is returned unchanged.
C12_GlobalValueGathered ==
    \A p \in Procs(par.Nproc) :
       par.proc[p].pc = "returned" =>
          LET result == par.proc[p].result
              ids    == concatenate([q \in 1..par.Nproc |-> par.proc[q - 1].globalIDs])
          IN  IF par.Nproc > 1
              THEN /\ result.shape = Most(par.proc[p].localValue.shape)
                                        \o <<MaxOf(ids) + 1>>
                   /\ \A q \in Procs(par.Nproc) :
                         \A i \in 0..(par.proc[q].globalIDs.shape[1] - 1) :
                            \A e \in Indices(Most(result.shape)) :
                               result.data[e \o <<par.proc[q].globalIDs.data[<<i>>]>>]
                                 = par.proc[q].localValue.data[
                                      e \o <<par.proc[q].localIDs.data[<<i>>]>>]
                   /\ \A q \in Procs(par.Nproc) :
                         par.proc[q].pc = "returned" => par.proc[q].result = result
              ELSE result = par.proc[p].localValue

C12_Witness ==
    /\ par.Nproc > 1
    /\ \A p \in Procs(par.Nproc) : par.proc[p].pc = "returned"
    /\ par.proc[0].globalIDs = Array1(<<2, 0>>)
    /\ par.proc[0].localIDs = Array1(<<0, 2>>)
    /\ par.proc[1].globalIDs = Array1(<<1>>)
    /\ par.proc[0].result = Ramp(<<2, 3>>, 1)

AllReturned == \A p \in Procs(par.Nproc) : par.proc[p].pc = "returned"

\* every all-gather is entered by all processes for the same thing
Matched ==
    \A k \in 1..2 : \A p, q \in Procs(par.Nproc) :
       (par.comm[k][p].what # "" /\ par.comm[k][q].what # "")
          => par.comm[k][p].what = par.comm[k][q].what

\* C15: in a run of several processes every process issues the same two
\* all-gathers in the same order, first of globalIDs and then of the local
\* value, whatever its local data, and every process eventually returns.
C15_CollectivesMatch ==
    <>(/\ AllReturned
       /\ Matched
       /\ \A p \in Procs(par.Nproc) :
             par.Nproc > 1 => par.proc[p].issued = <<"globalIDs", "localValue">>)

C15_Witness ==
    /\ par.Nproc > 1
    /\ AllReturned
    /\ \E p \in Procs(par.Nproc) :
          /\ LastAxis(par.proc[p].localValue) = 0
          /\ par.proc[p].issued = <<"globalIDs", "localValue">>
    /\ \E p \in Procs(par.Nproc) : LastAxis(par.proc[p].localValue) # 0


(***************************************************************************)
(* Scenario "startup": fipy.tools is imported in some installation and     *)
(* _getComms() chooses the communicators.                                  *)
(***************************************************************************)
\* _parseSolver() returning None: no solver was asked for
NoSolver == "None"

Solvers == {NoSolver, "trilinos", "no-pysparse", "pysparse", "scipy", "pyamg"}

NoComms == [raised |-> "", serial |-> "", parallel |-> ""]

Raise(e) == [raised |-> e, serial |-> "", parallel |-> ""]

\* _parallelImport() in an installation env: scipy, PyTrilinos and mpi4py
\* importable or not, Nproc the number of processes Epetra reports
_parallelImport(env) ==
    IF ~env.PyTrilinos THEN Raise("ImportError")
    ELSE IF env.Nproc > 1
    THEN IF env.mpi4py
         THEN [raised |-> "", serial |-> "SerialCommWrapper",
               parallel |-> "Mpi4pyCommWrapper"]
         ELSE Raise("ImportError")
    ELSE [raised |-> "", serial |-> "SerialCommWrapper", parallel |-> "CommWrapper"]

DummyComms == [raised |-> "", serial |-> "DummyComm", parallel |-> "DummyComm"]

\* _getComms()
_getComms(env) ==
    IF env.solver \in {"trilinos", "no-pysparse"} THEN _parallelImport(env)
    ELSE IF env.solver = NoSolver
    THEN IF _parallelImport(env).raised = "ImportError" THEN DummyComms
         ELSE _parallelImport(env)
    ELSE DummyComms

InitStartup ==
    /\ \E solver \in Solvers, scipy \in BOOLEAN, PyTrilinos \in BOOLEAN,
          mpi4py \in BOOLEAN, Nproc \in 1..MaxProcs :
         startup = [state |-> "importing",
                    env   |-> [solver |-> solver, scipy |-> scipy,
                               PyTrilinos |-> PyTrilinos, mpi4py |-> mpi4py,
                               Nproc |-> Nproc],
                    comms |-> NoComms]
    /\ masked = <<>> /\ par = <<>> /\ viewer = <<>>
    /\ IdleDot /\ IdleCtor /\ IdleCache /\ IdleTerms

\* serial, parallel = _getComms()
GetComms ==
    /\ startup # <<>>
    /\ startup.state = "importing"
    /\ LET comms == _getComms(startup.env)
       IN  startup' = [startup EXCEPT
                         !.comms = comms,
                         !.state = IF comms.raised = "" THEN "imported" ELSE "failed"]
    /\ UNCHANGED <<masked, par, viewer, dotVars, ctorVars, cacheVars, termVars>>

NextStartup == GetComms

SpecStartup == InitStartup /\ [][NextStartup]_vars

\* C13 as stated: when PyTrilinos is importable and reports more than one
\* process but mpi4py is not importable, _getComms raises under every solver
\* setting that attempts the parallel import ('trilinos', 'no-pysparse' and
\* no solver given); it returns no pair and does not fall back to DummyComm.
C13_AsStated ==
    (/\ startup.state # "importing"
     /\ startup.env.PyTrilinos /\ startup.env.Nproc > 1 /\ ~startup.env.mpi4py
     /\ startup.env.solver \in {"trilinos", "no-pysparse", NoSolver})
    => /\ startup.state = "failed"
       /\ startup.comms.raised # ""
       /\ startup.comms.serial = "" /\ startup.comms.parallel = ""


(***************************************************************************)
(* Scenario "viewer": Matplotlib2DGridViewer._getSuitableVars on a list of *)
(* candidate variables.  A candidate is its class, the class of its mesh   *)
(* and its name, here its position in the list.                            *)
(***************************************************************************)
VariableClasses == {"CellVariable", "ModularVariable", "FaceVariable"}

MeshClasses == {"UniformGrid2D", "Grid2D", "UniformGrid1D"}

\* isinstance(obj, class): ModularVariable is a subclass of CellVariable
isinstance(class, of) ==
    class = of \/ (class = "ModularVariable" /\ of = "CellVariable")

\* MatplotlibViewer._getSuitableVars: the candidates, in the order given
MatplotlibViewer_getSuitableVars(candidates) == candidates

\* mutant of _getSuitableVars: the last suitable variable is returned
_getSuitableVars_last(candidates) ==
    LET suitable == SelectSeq(MatplotlibViewer_getSuitableVars(candidates),
                       LAMBDA var : isinstance(var.mesh, "UniformGrid2D")
                                      /\ isinstance(var.class, "CellVariable"))
    IN  IF Len(suitable) = 0
        THEN [raised |-> "MeshDimensionError", vars |-> <<>>]
        ELSE [raised |-> "", vars |-> <<suitable[Len(suitable)]>>]

\* Matplotlib2DGridViewer._getSuitableVars(vars)
_getSuitableVars(candidates) ==
    LET suitable == SelectSeq(MatplotlibViewer_getSuitableVars(candidates),
                       LAMBDA var : isinstance(var.mesh, "UniformGrid2D")
                                      /\ isinstance(var.class, "CellVariable"))
    IN  IF Len(suitable) = 0
        THEN [raised |-> "MeshDimensionError", vars |-> <<>>]
        ELSE [raised |-> "", vars |-> <<suitable[1]>>]

InitViewer ==
    /\ \E n \in 0..MaxVars :
         \E classes \in [1..n -> VariableClasses], meshes \in [1..n -> MeshClasses] :
            viewer = [state      |-> "call",
                      candidates |-> [k \in 1..n |->
                                        [class |-> classes[k], mesh |-> meshes[k],
                                         name |-> k]],
                      raised     |-> "",
                      vars       |-> <<>>]
    /\ masked = <<>> /\ par = <<>> /\ startup = <<>>
    /\ IdleDot /\ IdleCtor /\ IdleCache /\ IdleTerms

GetSuitableVars ==
    /\ viewer # <<>>
    /\ viewer.state = "call"
    /\ LET r == _getSuitableVars(viewer.candidates)
       IN  viewer' = [viewer EXCEPT
                        !.state  = IF r.raised = "" THEN "returned" ELSE "raised",
                        !.raised = r.raised,
                        !.vars   = r.vars]
    /\ UNCHANGED <<masked, par, startup, dotVars, ctorVars, cacheVars, termVars>>

NextViewer == GetSuitableVars

SpecViewer == InitViewer /\ [][NextViewer]_vars

\* the positions of the candidates that are a CellVariable on a UniformGrid2D
Suitable(candidates) ==
    {k \in 1..Len(candidates) :
        /\ isinstance(candidates[k].class, "CellVariable")
        /\ candidates[k].mesh = "UniformGrid2D"}

\* C14: _getSuitableVars raises MeshDimensionError exactly when no candidate is
\* a CellVariable on a UniformGrid2D; otherwise it returns a list of one
\* variable, the first such candidate in input order.
C14_FirstSuitableOrRaise ==
    viewer.state # "call"
    => LET suitable == Suitable(viewer.candidates)
       IN  IF suitable = {}
           THEN viewer.state = "raised" /\ viewer.raised = "MeshDimensionError"
           ELSE /\ viewer.state = "returned" /\ viewer.raised = ""
                /\ Len(viewer.vars) = 1
                /\ \E k \in suitable :
                      /\ \A j \in suitable : k <= j
                      /\ viewer.vars[1] = viewer.candidates[k]
                /\ viewer.vars[1].mesh = "UniformGrid2D"

C14_Witness ==
    /\ viewer.state = "returned"
    /\ Len(viewer.candidates) = MaxVars
    /\ Suitable(viewer.candidates) = 1..MaxVars \ {1}
    /\ viewer.candidates[1].class = "CellVariable"
    /\ viewer.candidates[1].mesh = "Grid2D"
    /\ viewer.vars = <<viewer.candidates[2]>>


(***************************************************************************)
(* The declared and the actual shape of a scalar product, in the "dot"     *)
(* scenario.                                                               *)
(***************************************************************************)
\* the Fields of the script that a dot produced
DotResults == {Script[k].z : k \in {j \in 1..Len(Script) : Script[j].op = "dot"}}

\* C16 as stated: for operands of every rank, rank 0 on either side included,
\* the shape declared for A.dot(B) (opShape, hence getShape() and getRank())
\* is the shape of the array its evaluation produces.
C16_AsStated ==
    \A n \in DotResults :
       Has(n) => /\ fields[n].opShape = getValue(fields[n]).shape
                 /\ getShape(fields[n]) = getValue(fields[n]).shape
                 /\ getRank(fields[n]) = Len(getValue(fields[n]).shape) - 1

====
